---- MODULE Spec2Model ----
(***************************************************************************)
(* GB_add_phase2 (SuiteSparse:GraphBLAS, Source/GB_add_phase2.c):          *)
(* C=A+B or C<M>=A+B, second phase.  The model follows the function from   *)
(* its input checks through GB_create, the transplant of Cp and Ch, the    *)
(* choice between a specialized kernel and the generic worker, the         *)
(* parallel merge tasks, GB_hypermatrix_prune and the return.              *)
(***************************************************************************)
EXTENDS Integers, Sequences, FiniteSets, TLC

\* ------------------------------------------------------------------------
\* bounds of the inputs
\* ------------------------------------------------------------------------

\* A->vlen == B->vlen: the length of each vector (rows 0 .. vlen-1)
vlen == 4

\* the vectors of A and B (A->vdim == B->vdim)
Vecs == {0, 1}
vdim == Cardinality(Vecs)

\* at most this many entries in each of A, B and M
MaxNnz == 2

Rows == 0 .. (vlen - 1)
Cells == Rows \X Vecs

\* ------------------------------------------------------------------------
\* types, typecasting, operators
\* ------------------------------------------------------------------------

\* GB_Type_code values used here: three built-in types and a user type
TypeCodes == {"BOOL", "UINT8", "UINT16", "UDT"}

\* GB_Type_compatible: built-in types are compatible with each other, a
\* user-defined type only with itself
GB_Type_compatible(t1, t2) ==
    IF t1 = "UDT" \/ t2 = "UDT" THEN t1 = t2 ELSE TRUE

\* GB_cast_factory (code1, code2): the function that casts a value of type
\* code2 into type code1.  To bool: x != 0.  To an unsigned integer: modulo
\* 2^width.  A user-defined type is copied (GB_copy_user_user).
GB_cast_factory(code1, code2, v) ==
    CASE code1 = "BOOL"   -> (IF v = 0 THEN 0 ELSE 1)
      [] code1 = "UINT8"  -> v % 256
      [] code1 = "UINT16" -> v % 65536
      [] OTHER            -> v

\* GB_copy_user_user: memcpy of one value
GB_copy_user_user(v) == v

\* the NULL operator
NoOp == [opcode |-> "NULL", xtype |-> "UDT", ytype |-> "UDT",
         ztype |-> "UDT", builtin |-> FALSE]

\* the binary operators: three built-in ones and a user-defined one
Ops == {
    [opcode |-> "PLUS", xtype |-> "UINT8", ytype |-> "UINT8",
     ztype |-> "UINT8", builtin |-> TRUE],
    [opcode |-> "PLUS", xtype |-> "UINT16", ytype |-> "UINT16",
     ztype |-> "UINT16", builtin |-> TRUE],
    [opcode |-> "MIN", xtype |-> "UINT8", ytype |-> "UINT8",
     ztype |-> "UINT8", builtin |-> TRUE],
    [opcode |-> "USER", xtype |-> "UINT8", ytype |-> "BOOL",
     ztype |-> "UINT16", builtin |-> FALSE] }

\* op->function: z = f (x,y), with x of type xtype, y of type ytype and the
\* result stored in a value of type ztype
OpFunction(o, x, y) ==
    CASE o.opcode = "PLUS" -> GB_cast_factory(o.ztype, o.ztype, x + y)
      [] o.opcode = "MIN"  -> (IF x < y THEN x ELSE y)
      [] o.opcode = "USER" -> 256 * y + x + 3
      [] OTHER             -> 0

\* ------------------------------------------------------------------------
\* sparse matrices (the GrB_Matrix fields p, h, i, x, type)
\* ------------------------------------------------------------------------

\* position of an entry in the vector-major, row-ascending order
Key(c) == c[2] * vlen + c[1]

\* the n-th cell (from 0) of a set of cells in storage order
Nth(S, n) == CHOOSE c \in S : Cardinality({d \in S : Key(d) < Key(c)}) = n

VecsOf(S) == {c[2] : c \in S}

\* a hyperlist: the vectors of V in ascending order, indexed from 0
Hlist(V) ==
    [k \in 0 .. (Cardinality(V) - 1) |->
        CHOOSE j \in V : Cardinality({u \in V : u < j}) = k]

\* the values the entries of A and of B are filled from, in storage order
APool == <<10, 20, 300, 256>>
BPool == <<5, 7, 256, 511>>

PoolVal(pool, sh, n) == pool[((n + sh) % Len(pool)) + 1]

\* a matrix of the given type with pattern S; val[n] is the n-th value
MakeMatrix(type, S, hyper, val) ==
    LET h    == IF hyper THEN Hlist(VecsOf(S)) ELSE <<>>
        nvec == IF hyper THEN Cardinality(VecsOf(S)) ELSE vdim
        jof(k) == IF k = nvec THEN vdim ELSE IF hyper THEN h[k] ELSE k
    IN  [type |-> type, is_hyper |-> hyper, nvec |-> nvec, h |-> h,
         p |-> [k \in 0 .. nvec |-> Cardinality({c \in S : c[2] < jof(k)})],
         i |-> [n \in 0 .. (Cardinality(S) - 1) |-> Nth(S, n)[1]],
         x |-> [n \in 0 .. (Cardinality(S) - 1) |-> val[n]]]

\* GBH (Ah, k): the vector held in slot k
GBH(X, k) == IF X.is_hyper THEN X.h[k] ELSE k

\* the slot of vector j in X, or -1
SlotOf(X, j) ==
    IF \E k \in 0 .. (X.nvec - 1) : GBH(X, k) = j
    THEN CHOOSE k \in 0 .. (X.nvec - 1) : GBH(X, k) = j
    ELSE -1

\* the position of entry (i,j) in X, or -1
Pos(X, i, j) ==
    LET k == SlotOf(X, j)
    IN  IF k >= 0 /\ \E q \in X.p[k] .. (X.p[k + 1] - 1) : X.i[q] = i
        THEN CHOOSE q \in X.p[k] .. (X.p[k + 1] - 1) : X.i[q] = i
        ELSE -1

Has(X, i, j) == Pos(X, i, j) >= 0

\* ------------------------------------------------------------------------
\* the results of GB_add_phase0 and GB_add_phase1 that the caller passes in
\* ------------------------------------------------------------------------

\* the mask entry at position pM of M qualifies: GB_mcast
GB_mcast(M, pM, Mask_struct) == Mask_struct \/ M.x[pM] # 0

\* the cells GB_add_phase1 counted: present in A or B, and allowed by the mask
Counted(A, B, M, has_M, Mask_struct) ==
    {c \in Cells :
        /\ Has(A, c[1], c[2]) \/ Has(B, c[1], c[2])
        /\ has_M => /\ Has(M, c[1], c[2])
                    /\ GB_mcast(M, Pos(M, c[1], c[2]), Mask_struct)}

\* first position of X(:,j) slot k whose row index is >= lo; 0 if k < 0
SliceAt(X, k, lo) ==
    IF k < 0 THEN 0
    ELSE X.p[k] + Cardinality({q \in X.p[k] .. (X.p[k + 1] - 1) : X.i[q] < lo})

\* a coarse task: the whole vectors kfirst .. klast
CoarseTask(kfirst, klast) ==
    [kfirst |-> kfirst, klast |-> klast, pA |-> -1, pA_end |-> -1,
     pB |-> -1, pB_end |-> -1, pM |-> -1, pM_end |-> -1,
     pC |-> -1, pC_end |-> -1]

\* a fine task: rows lo .. hi-1 of the vector in slot k of C (klast == -1)
FineTask(k, lo, hi, kA, kB, kM, A, B, M, Ck) ==
    [kfirst |-> k, klast |-> -1,
     pA |-> SliceAt(A, kA, lo), pA_end |-> SliceAt(A, kA, hi),
     pB |-> SliceAt(B, kB, lo), pB_end |-> SliceAt(B, kB, hi),
     pM |-> SliceAt(M, kM, lo), pM_end |-> SliceAt(M, kM, hi),
     pC |-> SliceAt(Ck, k, lo), pC_end |-> SliceAt(Ck, k, hi)]

\* The arguments of one call.  in.Apat, in.Bpat and in.Mpat are the patterns
\* of A, B and M; in.Mzero the mask entries whose value is zero; in.split the
\* task partition: <<"vectors", 0, 0>> (one coarse task for each vector),
\* <<"one", 0, 0>> (a single coarse task) or <<"fine", k, s>> (the vector in
\* slot k is cut at row s into two fine tasks).
Args(in) ==
    LET A == MakeMatrix(in.atype, in.Apat, in.hyper,
               [n \in 0 .. (Cardinality(in.Apat) - 1) |->
                   GB_cast_factory(in.atype, in.atype,
                                   PoolVal(APool, in.ash, n))])
        B == MakeMatrix(in.btype, in.Bpat, in.hyper,
               [n \in 0 .. (Cardinality(in.Bpat) - 1) |->
                   GB_cast_factory(in.btype, in.btype,
                                   PoolVal(BPool, in.bsh, n))])
        M == MakeMatrix("BOOL", in.Mpat, in.hyper,
               [n \in 0 .. (Cardinality(in.Mpat) - 1) |->
                   IF Nth(in.Mpat, n) \in in.Mzero THEN 0 ELSE 1])
        cells == Counted(A, B, M, in.has_M, in.Mask_struct)
        \* C is hypersparse if both A and B are, or if M is present and
        \* hypersparse; with a mask the vectors of C are those of M
        Ch == IF ~ in.hyper THEN <<>>
              ELSE IF in.has_M THEN M.h
              ELSE Hlist(VecsOf(in.Apat \cup in.Bpat))
        Cnvec == IF in.hyper
                 THEN Cardinality(DOMAIN Ch) ELSE vdim
        jof(k) == IF k = Cnvec THEN vdim ELSE IF in.hyper THEN Ch[k] ELSE k
        Cp == [k \in 0 .. Cnvec |->
                 Cardinality({c \in cells : c[2] < jof(k)})]
        Cshape == [is_hyper |-> in.hyper, nvec |-> Cnvec, h |-> Ch,
                   p |-> Cp,
                   i |-> [n \in 0 .. (Cardinality(cells) - 1) |->
                            Nth(cells, n)[1]]]
        C_to_A == [k \in 0 .. (Cnvec - 1) |-> SlotOf(A, jof(k))]
        C_to_B == [k \in 0 .. (Cnvec - 1) |-> SlotOf(B, jof(k))]
        C_to_M == [k \in 0 .. (Cnvec - 1) |->
                     IF in.has_M THEN SlotOf(M, jof(k)) ELSE -1]
        fine(k, lo, hi) ==
            FineTask(k, lo, hi, C_to_A[k], C_to_B[k], C_to_M[k],
                     A, B, M, Cshape)
        TaskList ==
            IF Cnvec = 0 THEN <<>>
            ELSE IF in.split[1] = "vectors"
            THEN [t \in 0 .. (Cnvec - 1) |-> CoarseTask(t, t)]
            ELSE IF in.split[1] = "one"
            THEN [t \in 0 .. 0 |-> CoarseTask(0, Cnvec - 1)]
            ELSE LET kf == in.split[2]
                     s  == in.split[3]
                 IN  [t \in 0 .. Cnvec |->
                        IF t < kf THEN CoarseTask(t, t)
                        ELSE IF t = kf THEN fine(kf, 0, s)
                        ELSE IF t = kf + 1 THEN fine(kf, s, vlen)
                        ELSE CoarseTask(t - 1, t - 1)]
    IN  [GB_DEBUG |-> in.GB_DEBUG, GBCOMPACT |-> in.GBCOMPACT,
         ctype |-> in.ctype, op |-> in.op,
         Cp |-> Cp,
         Cnvec_nonempty |->
             Cardinality({k \in 0 .. (Cnvec - 1) : Cp[k] < Cp[k + 1]}),
         TaskList |-> TaskList, ntasks |-> Cardinality(DOMAIN TaskList),
         Cnvec |-> Cnvec, Ch_is_null |-> ~ in.hyper, Ch |-> Ch,
         C_to_M |-> C_to_M, C_to_A |-> C_to_A, C_to_B |-> C_to_B,
         Ch_is_Mh |-> in.hyper /\ in.has_M,
         has_M |-> in.has_M, M |-> M, Mask_struct |-> in.Mask_struct,
         A |-> A, B |-> B]

\* the patterns: sets of at most MaxNnz cells, any in the first vector and
\* row 2 in the second
PatternCells == (Rows \X {0}) \cup {<<2, 1>>}
Patterns == {S \in SUBSET PatternCells : Cardinality(S) <= MaxNnz}

\* ------------------------------------------------------------------------
\* state
\* ------------------------------------------------------------------------

VARIABLES
    arg,        \* the arguments of the call (never changed)
    pc,         \* where GB_add_phase2 is
    info,       \* the GrB_Info it returns
    Chandle,    \* (*Chandle): "unset", "NULL" or "C"
    C,          \* the matrix C: header pointer and header fields
    heap,       \* each memory block: "unallocated", "allocated" or "freed"
    nfree,      \* how many times each block was freed
    cont,       \* the contents of the blocks Cp, Ch, Ci, Cx, Cp_new, Ch_new
    task,       \* the position of each merge task
    done,       \* the local variable done
    worker,     \* which worker does the merge: "none", "kernel", "generic"
    writes,     \* for each position of Ci/Cx, the tasks that wrote it
    fadd_null   \* TRUE once fadd was called while it is NULL

vars == <<arg, pc, info, Chandle, C, heap, nfree, cont, task, done, worker,
          writes, fadd_null>>

Blocks == {"Cp", "Ch", "C", "Ci", "Cx", "Cp_new", "Ch_new"}

\* a value never written
Uninit == -1

cnz == arg.Cp[arg.Cnvec]

\* GB_FREE (p): a NULL pointer is ignored
Freed(h, ps) == [b \in Blocks |-> IF b \in ps THEN "freed" ELSE h[b]]
CountFree(n, ps) == [b \in Blocks |-> IF b \in ps THEN n[b] + 1 ELSE n[b]]

\* ------------------------------------------------------------------------
\* check inputs (ASSERT is compiled in only when GB_DEBUG is defined)
\* ------------------------------------------------------------------------

InputsOK ==
    IF arg.op = NoOp
    THEN /\ arg.ctype = arg.A.type
         /\ arg.ctype = arg.B.type
         /\ ~ arg.has_M
    ELSE /\ GB_Type_compatible(arg.ctype, arg.A.type)
         /\ GB_Type_compatible(arg.ctype, arg.B.type)
         /\ GB_Type_compatible(arg.ctype, arg.op.ztype)
         /\ GB_Type_compatible(arg.A.type, arg.op.xtype)
         /\ GB_Type_compatible(arg.B.type, arg.op.ytype)

\* a failed ASSERT stops the program
AssertFails(cond) == arg.GB_DEBUG /\ ~ cond

CheckInputs ==
    /\ pc = "check_inputs"
    /\ pc' = IF AssertFails(InputsOK) THEN "aborted" ELSE "create"
    /\ UNCHANGED <<arg, info, Chandle, C, heap, nfree, cont, task, done,
                   worker, writes, fadd_null>>

\* ------------------------------------------------------------------------
\* allocate the output matrix C
\* ------------------------------------------------------------------------

NullC == [hdr |-> "NULL", p |-> "NULL", h |-> "NULL", i |-> "NULL",
          x |-> "NULL", magic |-> "none", is_hyper |-> FALSE, nvec |-> 0,
          nvec_nonempty |-> 0]

\* GB_create with GB_Ap_null: the header, C->i and C->x are allocated, C->p
\* and C->h are not, and the matrix is not yet valid (GB_MAGIC2)
GB_create_C ==
    [hdr |-> "C", p |-> "NULL", h |-> "NULL", i |-> "Ci", x |-> "Cx",
     magic |-> "GB_MAGIC2", is_hyper |-> ~ arg.Ch_is_null,
     nvec |-> IF arg.Ch_is_null THEN vdim ELSE 0, nvec_nonempty |-> 0]

\* a create-failure path that frees Cp but not Ch
FreedOnCreateFailure_NoCh == {"Cp"}

\* GB_FREE (Cp) ; GB_FREE (Ch) on the create-failure path
FreedOnCreateFailure ==
    {"Cp"} \cup (IF arg.Ch_is_null THEN {} ELSE {"Ch"})

\* GB_create fails: nothing of C stays allocated; Cp and Ch are freed here
CreateFails ==
    /\ pc = "create"
    /\ Chandle' = "NULL"
    /\ C' = NullC
    /\ info' = "GrB_OUT_OF_MEMORY"
    /\ heap' = Freed(heap, FreedOnCreateFailure)
    /\ nfree' = CountFree(nfree, FreedOnCreateFailure)
    /\ pc' = "returned"
    /\ UNCHANGED <<arg, cont, task, done, worker, writes, fadd_null>>

\* a transplant that leaves the matrix marked as under construction
Transplant_NoMagic(c) ==
    [c EXCEPT !.p = "Cp",
              !.h = IF c.is_hyper THEN "Ch" ELSE c.h,
              !.nvec = IF c.is_hyper THEN arg.Cnvec ELSE c.nvec,
              !.nvec_nonempty = arg.Cnvec_nonempty]

\* Cp and Ch transplanted into the new C, which is then marked valid
Transplant(c) ==
    [c EXCEPT !.p = "Cp",
              !.h = IF c.is_hyper THEN "Ch" ELSE c.h,
              !.nvec = IF c.is_hyper THEN arg.Cnvec ELSE c.nvec,
              !.nvec_nonempty = arg.Cnvec_nonempty,
              !.magic = "GB_MAGIC"]

CreateSucceeds ==
    /\ pc = "create"
    /\ Chandle' = "NULL"
    /\ heap' = [heap EXCEPT !["C"] = "allocated", !["Ci"] = "allocated",
                            !["Cx"] = "allocated"]
    /\ C' = Transplant(GB_create_C)
    /\ info' = "GrB_SUCCESS"
    /\ done' = FALSE
    /\ pc' = "dispatch"
    /\ UNCHANGED <<arg, nfree, cont, task, worker, writes, fadd_null>>

\* ------------------------------------------------------------------------
\* the switch factory and the generic plan
\* ------------------------------------------------------------------------

\* GB_binop_builtin: the operator is built-in and is applied to A and B
\* with no typecasting
GB_binop_builtin(atype, btype, o) ==
    /\ o # NoOp
    /\ o.builtin
    /\ atype = o.xtype /\ atype # "UDT"
    /\ btype = o.ytype /\ btype # "UDT"

\* the condition under which the switch factory is launched
FactoryLaunched ==
    /\ ~ arg.GBCOMPACT
    /\ GB_binop_builtin(arg.A.type, arg.B.type, arg.op)
    /\ arg.ctype = arg.op.ztype

\* the cast functions of the generic worker
cast_A_to_X(v) == IF arg.op = NoOp THEN GB_copy_user_user(v)
                  ELSE GB_cast_factory(arg.op.xtype, arg.A.type, v)
cast_B_to_Y(v) == IF arg.op = NoOp THEN GB_copy_user_user(v)
                  ELSE GB_cast_factory(arg.op.ytype, arg.B.type, v)
cast_A_to_C(v) == IF arg.op = NoOp THEN GB_copy_user_user(v)
                  ELSE GB_cast_factory(arg.ctype, arg.A.type, v)
cast_B_to_C(v) == IF arg.op = NoOp THEN GB_copy_user_user(v)
                  ELSE GB_cast_factory(arg.ctype, arg.B.type, v)
cast_Z_to_C(v) == IF arg.op = NoOp THEN GB_copy_user_user(v)
                  ELSE GB_cast_factory(arg.ctype, arg.op.ztype, v)

\* fadd = op->function (called only when op is not NULL)
fadd(x, y) == OpFunction(arg.op, x, y)

\* C(i,j) = (ctype) A(i,j)
GB_COPY_A_TO_C(pA) == cast_A_to_C(arg.A.x[pA])

\* C(i,j) = (ctype) B(i,j)
GB_COPY_B_TO_C(pB) == cast_B_to_C(arg.B.x[pB])

\* aij = (xtype) A(i,j)
GB_GETA(pA) == cast_A_to_X(arg.A.x[pA])

\* bij = (ytype) B(i,j)
GB_GETB(pB) == cast_B_to_Y(arg.B.x[pB])

\* the operator's result stored in C with no cast from ztype to ctype
GB_BINOP_NoCast(aij, bij) == fadd(aij, bij)

\* C(i,j) = (ctype) (A(i,j) + B(i,j))
GB_BINOP(aij, bij) == cast_Z_to_C(fadd(aij, bij))

\* every entry stored in the first position of Cx
GB_CX_First(p) == 0

\* address of Cx [p]
GB_CX(p) == p

\* the same three steps in a specialized kernel GB_AaddB_*: the types of A,
\* B and C are those of the operator and nothing is cast
Kernel_COPY_A_TO_C(pA) == arg.A.x[pA]
Kernel_COPY_B_TO_C(pB) == arg.B.x[pB]
Kernel_BINOP(pA, pB) == OpFunction(arg.op, arg.A.x[pA], arg.B.x[pB])

\* ------------------------------------------------------------------------
\* the merge tasks (GB_add_template.c)
\* ------------------------------------------------------------------------

Tasks == 0 .. (arg.ntasks - 1)

TaskDone == [k |-> -1, pA |-> -1, pA_end |-> -1, pB |-> -1, pB_end |-> -1,
             pM |-> -1, pM_end |-> -1, pC |-> -1, st |-> "done"]

IsFine(t) == arg.TaskList[t].klast = -1

\* the part of C(:,j), A(:,j), B(:,j) and M(:,j) task t handles in slot k
GetVector(t, k) ==
    LET T  == arg.TaskList[t]
        kA == arg.C_to_A[k]
        kB == arg.C_to_B[k]
        kM == IF arg.Ch_is_Mh THEN k ELSE arg.C_to_M[k]
    IN  IF IsFine(t)
        THEN [k |-> k, pA |-> T.pA, pA_end |-> T.pA_end,
              pB |-> T.pB, pB_end |-> T.pB_end,
              pM |-> T.pM, pM_end |-> T.pM_end,
              pC |-> T.pC, pC_end |-> T.pC_end]
        ELSE [k |-> k,
              pA |-> IF kA >= 0 THEN arg.A.p[kA] ELSE -1,
              pA_end |-> IF kA >= 0 THEN arg.A.p[kA + 1] ELSE -1,
              pB |-> IF kB >= 0 THEN arg.B.p[kB] ELSE -1,
              pB_end |-> IF kB >= 0 THEN arg.B.p[kB + 1] ELSE -1,
              pM |-> IF arg.has_M /\ kM >= 0 THEN arg.M.p[kM] ELSE -1,
              pM_end |-> IF arg.has_M /\ kM >= 0
                         THEN arg.M.p[kM + 1] ELSE -1,
              pC |-> arg.Cp[k], pC_end |-> arg.Cp[k + 1]]

\* task t goes on with the first slot from k0 on whose part of C is not
\* empty (cjnz == 0: continue), or is finished
NextVector(t, k0) ==
    LET T     == arg.TaskList[t]
        klast == IF IsFine(t) THEN T.kfirst ELSE T.klast
        K     == {k \in k0 .. klast :
                    GetVector(t, k).pC_end > GetVector(t, k).pC}
    IN  IF K = {} THEN TaskDone
        ELSE LET v == GetVector(t, CHOOSE k \in K : \A u \in K : k <= u)
             IN  [k |-> v.k, pA |-> v.pA, pA_end |-> v.pA_end,
                  pB |-> v.pB, pB_end |-> v.pB_end,
                  pM |-> v.pM, pM_end |-> v.pM_end,
                  pC |-> v.pC, st |-> "run"]

\* a merge that takes all of A(:,j) before any of B(:,j)
MergeKind_AFirst(s) ==
    IF s.pA < s.pA_end /\ s.pB < s.pB_end
    THEN IF arg.A.i[s.pA] = arg.B.i[s.pB] THEN "AB" ELSE "A"
    ELSE IF s.pA < s.pA_end THEN "A" ELSE "B"

\* which of A(i,j) and B(i,j) the next step of the two-way merge takes
MergeKind(s) ==
    IF s.pA < s.pA_end /\ s.pB < s.pB_end
    THEN IF arg.A.i[s.pA] < arg.B.i[s.pB] THEN "A"
         ELSE IF arg.A.i[s.pA] > arg.B.i[s.pB] THEN "B"
         ELSE "AB"
    ELSE IF s.pA < s.pA_end THEN "A" ELSE "B"

MergeRow(s) == IF MergeKind(s) = "A" THEN arg.A.i[s.pA] ELSE arg.B.i[s.pB]

\* a mask whose values are never looked at
MaskAllows_Structural(s, i) ==
    arg.has_M => \E pM \in s.pM .. (s.pM_end - 1) : arg.M.i[pM] = i

\* the mask lets row i through: M(i,j) is present in the task's part of
\* M(:,j) and, unless the mask is structural, its value is true
MaskAllows(s, i) ==
    arg.has_M =>
        \E pM \in s.pM .. (s.pM_end - 1) :
            arg.M.i[pM] = i /\ GB_mcast(arg.M, pM, arg.Mask_struct)

\* the value the worker stores for the entry
MergeValue(s) ==
    LET kind == MergeKind(s)
    IN  IF worker = "kernel"
        THEN CASE kind = "A" -> Kernel_COPY_A_TO_C(s.pA)
               [] kind = "B" -> Kernel_COPY_B_TO_C(s.pB)
               [] OTHER      -> Kernel_BINOP(s.pA, s.pB)
        ELSE CASE kind = "A" -> GB_COPY_A_TO_C(s.pA)
               [] kind = "B" -> GB_COPY_B_TO_C(s.pB)
               [] OTHER      -> GB_BINOP(GB_GETA(s.pA), GB_GETB(s.pB))

\* the task after one step of the merge that emitted (or not) an entry
Advance(t, s, emitted) ==
    LET kind == MergeKind(s)
        pA2  == IF kind \in {"A", "AB"} THEN s.pA + 1 ELSE s.pA
        pB2  == IF kind \in {"B", "AB"} THEN s.pB + 1 ELSE s.pB
    IN  IF pA2 >= s.pA_end /\ pB2 >= s.pB_end
        THEN NextVector(t, s.k + 1)
        ELSE [s EXCEPT !.pA = pA2, !.pB = pB2,
                       !.pC = IF emitted THEN s.pC + 1 ELSE s.pC]

\* fadd would be called for this step
CallsBinop(s) == MergeKind(s) = "AB" /\ MaskAllows(s, MergeRow(s))

\* one step of task t, storing value v if the entry is emitted
StepWith(t, v) ==
    LET s == task[t]
        i == MergeRow(s)
    IN  IF MaskAllows(s, i)
        THEN /\ cont' = [cont EXCEPT !.Ci[s.pC] = i, !.Cx[GB_CX(s.pC)] = v]
             /\ writes' = [writes EXCEPT ![GB_CX(s.pC)] = Append(@, t)]
             /\ task' = [task EXCEPT ![t] = Advance(t, s, TRUE)]
        ELSE /\ task' = [task EXCEPT ![t] = Advance(t, s, FALSE)]
             /\ UNCHANGED <<cont, writes>>

\* one step of the merge of task t
TaskStep(t) ==
    /\ pc = "merge"
    /\ task[t].st = "run"
    /\ ~ (CallsBinop(task[t]) /\ arg.op = NoOp)
    /\ StepWith(t, MergeValue(task[t]))
    /\ UNCHANGED <<arg, pc, info, Chandle, C, heap, nfree, done, worker,
                   fadd_null>>

\* GB_BINOP with op == NULL, assertions compiled in: ASSERT (op != NULL)
TaskAssert(t) ==
    /\ pc = "merge"
    /\ task[t].st = "run"
    /\ CallsBinop(task[t])
    /\ AssertFails(arg.op # NoOp)
    /\ pc' = "aborted"
    /\ UNCHANGED <<arg, info, Chandle, C, heap, nfree, cont, task, done,
                   worker, writes, fadd_null>>

\* GB_BINOP with op == NULL, assertions compiled out: fadd, a NULL function
\* pointer, is called.  The behaviour is undefined: the program stops, or
\* goes on with some value in z.
TaskNullCall(t) ==
    /\ pc = "merge"
    /\ task[t].st = "run"
    /\ CallsBinop(task[t])
    /\ arg.op = NoOp
    /\ ~ arg.GB_DEBUG
    /\ fadd_null' = TRUE
    /\ \/ /\ pc' = "crashed"
          /\ UNCHANGED <<cont, task, writes>>
       \/ /\ \E z \in {arg.A.x[task[t].pA], arg.B.x[task[t].pB]} :
                StepWith(t, cast_Z_to_C(z))
          /\ pc' = pc
    /\ UNCHANGED <<arg, info, Chandle, C, heap, nfree, done, worker>>

InitialTasks == [t \in Tasks |-> NextVector(t, arg.TaskList[t].kfirst)]

\* the switch factory finds the kernel, which does the merge
KernelRuns ==
    /\ pc = "dispatch"
    /\ FactoryLaunched
    /\ worker' = "kernel"
    /\ task' = InitialTasks
    /\ done' = TRUE
    /\ pc' = "merge"
    /\ UNCHANGED <<arg, info, Chandle, C, heap, nfree, cont, writes,
                   fadd_null>>

\* the kernel is disabled and returns GrB_NO_VALUE: done stays false, and
\* ASSERT (done) follows; without assertions the generic worker takes over
KernelNoValue ==
    /\ pc = "dispatch"
    /\ FactoryLaunched
    /\ info' = "GrB_NO_VALUE"
    /\ done' = FALSE
    /\ IF AssertFails(done')
       THEN /\ pc' = "aborted"
            /\ UNCHANGED <<worker, task>>
       ELSE /\ worker' = "generic"
            /\ task' = InitialTasks
            /\ pc' = "merge"
    /\ UNCHANGED <<arg, Chandle, C, heap, nfree, cont, writes, fadd_null>>

\* no kernel: the generic worker does the merge
GenericWorker ==
    /\ pc = "dispatch"
    /\ ~ FactoryLaunched
    /\ ~ done
    /\ worker' = "generic"
    /\ task' = InitialTasks
    /\ pc' = "merge"
    /\ UNCHANGED <<arg, info, Chandle, C, heap, nfree, cont, done, writes,
                   fadd_null>>

\* ------------------------------------------------------------------------
\* remove empty vectors from C, if hypersparse, and return
\* ------------------------------------------------------------------------

AllTasksDone == \A t \in Tasks : task[t].st = "done"

\* GB_hypermatrix_prune has work to do (and memory to allocate)
NeedsPrune(c) == c.is_hyper /\ c.nvec_nonempty < c.nvec

\* the slots of C that are not empty, in order
NonEmptySlots ==
    {k \in 0 .. (arg.Cnvec - 1) : arg.Cp[k] < arg.Cp[k + 1]}
KeptSlot(n) ==
    CHOOSE k \in NonEmptySlots :
        Cardinality({u \in NonEmptySlots : u < k}) = n

\* GB_hypermatrix_prune: new, shorter C->p and C->h replace the old ones
GB_hypermatrix_prune(c) ==
    IF NeedsPrune(c)
    THEN [c EXCEPT !.p = "Cp_new", !.h = "Ch_new",
                   !.nvec = c.nvec_nonempty]
    ELSE c

Pruned_Cp ==
    [n \in 0 .. arg.Cnvec_nonempty |->
        IF n = arg.Cnvec_nonempty THEN cnz ELSE arg.Cp[KeptSlot(n)]]
Pruned_Ch ==
    [n \in 0 .. (arg.Cnvec_nonempty - 1) |-> arg.Ch[KeptSlot(n)]]

\* the blocks GB_MATRIX_FREE (&C) frees
GB_MATRIX_FREE(c) == {c.hdr, c.p, c.h, c.i, c.x} \ {"NULL"}

\* a prune-failure path that frees nothing
FreedOnPruneFailure_Nothing(c) == {}

\* GB_MATRIX_FREE (&C) on the prune-failure path
FreedOnPruneFailure(c) == GB_MATRIX_FREE(c)

PruneSucceeds ==
    /\ pc = "merge"
    /\ AllTasksDone
    /\ C' = GB_hypermatrix_prune(C)
    /\ IF NeedsPrune(C)
       THEN /\ heap' = [Freed(heap, {C.p, C.h}) EXCEPT
                           !["Cp_new"] = "allocated",
                           !["Ch_new"] = "allocated"]
            /\ nfree' = CountFree(nfree, {C.p, C.h})
            /\ cont' = [cont EXCEPT !.Cp_new = Pruned_Cp,
                                    !.Ch_new = Pruned_Ch]
       ELSE UNCHANGED <<heap, nfree, cont>>
    /\ info' = "GrB_SUCCESS"
    /\ Chandle' = "C"
    /\ pc' = "returned"
    /\ UNCHANGED <<arg, task, done, worker, writes, fadd_null>>

PruneFails ==
    /\ pc = "merge"
    /\ AllTasksDone
    /\ NeedsPrune(C)
    /\ info' = "GrB_OUT_OF_MEMORY"
    /\ heap' = Freed(heap, FreedOnPruneFailure(C))
    /\ nfree' = CountFree(nfree, FreedOnPruneFailure(C))
    /\ C' = NullC
    /\ pc' = "returned"
    /\ UNCHANGED <<arg, Chandle, cont, task, done, worker, writes,
                   fadd_null>>

\* ------------------------------------------------------------------------
\* the calls
\* ------------------------------------------------------------------------

PLUS_UINT16 == [opcode |-> "PLUS", xtype |-> "UINT16", ytype |-> "UINT16",
                ztype |-> "UINT16", builtin |-> TRUE]

\* a call with no mask, operator PLUS_UINT16 and all types UINT16
Plain(Apat, Bpat) ==
    [GB_DEBUG |-> FALSE, GBCOMPACT |-> FALSE, hyper |-> FALSE,
     op |-> PLUS_UINT16, atype |-> "UINT16", btype |-> "UINT16",
     ctype |-> "UINT16", Apat |-> Apat, Bpat |-> Bpat, ash |-> 0, bsh |-> 0,
     has_M |-> FALSE, Mpat |-> {}, Mzero |-> {}, Mask_struct |-> FALSE,
     split |-> <<"vectors", 0, 0>>]

\* the task partitions: by vector, or with the first vector cut in two
Splits == {<<"vectors", 0, 0>>} \cup
          {<<"fine", 0, s>> : s \in 1 .. (vlen - 1)}

\* the matrices of the two scenarios
ScenarioA == {<<1, 0>>, <<2, 1>>}
ScenarioB == {<<1, 0>>, <<3, 0>>}
DisjointA == {<<0, 0>>}
DisjointB == {<<1, 0>>}

\* the state in which GB_add_phase2 is entered with the arguments of in
InitWith(in) ==
    /\ arg = Args(in)
    /\ pc = "check_inputs"
    /\ info = "none"
    /\ Chandle = "unset"
    /\ C = NullC
    /\ heap = [b \in Blocks |->
                 IF b = "Cp" \/ (b = "Ch" /\ in.hyper)
                 THEN "allocated" ELSE "unallocated"]
    /\ nfree = [b \in Blocks |-> 0]
    /\ cont = [Cp |-> arg.Cp, Ch |-> arg.Ch,
               Ci |-> [n \in 0 .. (cnz - 1) |-> Uninit],
               Cx |-> [n \in 0 .. (cnz - 1) |-> Uninit],
               Cp_new |-> <<>>, Ch_new |-> <<>>]
    /\ task = [t \in Tasks |-> TaskDone]
    /\ done = FALSE
    /\ worker = "none"
    /\ writes = [n \in 0 .. (cnz - 1) |-> <<>>]
    /\ fadd_null = FALSE

\* The calls made: every pair of patterns under every task partition, and as
\* hypersparse matrices handled by a single coarse task; every operator (or
\* none), every type of A, B and C, with and without assertions and
\* specialized kernels, on the two scenarios; every mask over a few pairs of
\* matrices; every pair of patterns under two masks.
Init ==
    \/ \E S \in Patterns, T \in Patterns, sp \in Splits :
        InitWith([Plain(S, T) EXCEPT !.split = sp])
    \/ \E S \in Patterns, T \in Patterns :
        InitWith([Plain(S, T) EXCEPT !.split = <<"one", 0, 0>>,
                                     !.hyper = TRUE])
    \/ \E P \in {<<ScenarioA, ScenarioB>>, <<DisjointA, DisjointB>>},
          o \in Ops \cup {NoOp}, ta \in TypeCodes, tb \in TypeCodes,
          tc \in TypeCodes, dbg \in BOOLEAN, cmp \in BOOLEAN, sh \in {0, 2} :
        InitWith([Plain(P[1], P[2]) EXCEPT
                    !.op = o, !.atype = ta, !.btype = tb, !.ctype = tc,
                    !.GB_DEBUG = dbg, !.GBCOMPACT = cmp, !.ash = sh,
                    !.bsh = sh])
    \/ \E P \in {<<ScenarioA, ScenarioB>>, <<ScenarioB, ScenarioA>>,
                <<ScenarioA \cup ScenarioB, {}>>},
          Mp \in Patterns, ms \in BOOLEAN, hy \in BOOLEAN,
          sp \in {<<"vectors", 0, 0>>, <<"fine", 0, 2>>} :
        \E Mz \in {{}} \cup {{c} : c \in Mp} :
            /\ (sp[1] = "fine" /\ hy) => Mp # {}
            /\ InitWith([Plain(P[1], P[2]) EXCEPT
                           !.has_M = TRUE, !.Mpat = Mp, !.Mzero = Mz,
                           !.Mask_struct = ms, !.hyper = hy, !.split = sp])
    \/ \E S \in Patterns, T \in Patterns, Mz \in {{}, {<<2, 1>>}},
          ms \in BOOLEAN :
        InitWith([Plain(S, T) EXCEPT
                    !.has_M = TRUE, !.Mpat = {<<1, 0>>, <<2, 1>>},
                    !.Mzero = Mz, !.Mask_struct = ms])

Next ==
    \/ CheckInputs
    \/ CreateFails
    \/ CreateSucceeds
    \/ KernelRuns
    \/ KernelNoValue
    \/ GenericWorker
    \/ \E t \in Tasks : TaskStep(t)
    \/ \E t \in Tasks : TaskAssert(t)
    \/ \E t \in Tasks : TaskNullCall(t)
    \/ PruneSucceeds
    \/ PruneFails

Spec == Init /\ [][Next]_vars

\* ------------------------------------------------------------------------
\* properties
\* ------------------------------------------------------------------------

ReturnedOK == pc = "returned" /\ info = "GrB_SUCCESS"

\* the matrix C as its header and the contents of its arrays describe it
Cmat ==
    [is_hyper |-> C.is_hyper, nvec |-> C.nvec,
     h |-> IF C.h = "NULL" THEN <<>> ELSE cont[C.h],
     p |-> cont[C.p], i |-> cont.Ci, x |-> cont.Cx]

InA(c) == Has(arg.A, c[1], c[2])
InB(c) == Has(arg.B, c[1], c[2])
InM(c) == Has(arg.M, c[1], c[2])
InC(c) == Has(Cmat, c[1], c[2])
ValA(c) == arg.A.x[Pos(arg.A, c[1], c[2])]
ValB(c) == arg.B.x[Pos(arg.B, c[1], c[2])]
ValM(c) == arg.M.x[Pos(arg.M, c[1], c[2])]
ValC(c) == cont.Cx[Pos(Cmat, c[1], c[2])]

\* no row index is present in the same vector of both A and B
Disjoint == \A c \in Cells : ~ (InA(c) /\ InB(c))

\* the value C(i,j) is to have, by the rules of the element-wise add
AddValue(c) ==
    IF InA(c) /\ InB(c)
    THEN GB_cast_factory(arg.ctype, arg.op.ztype,
            OpFunction(arg.op,
                GB_cast_factory(arg.op.xtype, arg.A.type, ValA(c)),
                GB_cast_factory(arg.op.ytype, arg.B.type, ValB(c))))
    ELSE IF InA(c)
    THEN IF arg.op = NoOp THEN ValA(c)
         ELSE GB_cast_factory(arg.ctype, arg.A.type, ValA(c))
    ELSE IF arg.op = NoOp THEN ValB(c)
         ELSE GB_cast_factory(arg.ctype, arg.B.type, ValB(c))

\* the mask has a qualifying entry at the cell
MaskQualifies(c) == InM(c) /\ (arg.Mask_struct \/ ValM(c) # 0)

\* the call of the scenario: A = {v0:{1:10}, v1:{2:20}}, B = {v0:{1:5, 3:7}}
\* and operator plus, with no mask
IsScenario ==
    /\ ~ arg.has_M
    /\ arg.op # NoOp /\ arg.op.opcode = "PLUS"
    /\ arg.ctype \in {"UINT8", "UINT16"}
    /\ \A c \in Cells : InA(c) <=> c \in ScenarioA
    /\ \A c \in Cells : InB(c) <=> c \in ScenarioB
    /\ ValA(<<1, 0>>) = 10 /\ ValA(<<2, 1>>) = 20
    /\ ValB(<<1, 0>>) = 5 /\ ValB(<<3, 0>>) = 7

\* C1: on every return of GB_add_phase2 (GB_create failed, the prune failed,
\* or success) each of Cp and Ch (when Ch is not NULL) was either freed
\* exactly once by GB_add_phase2, or is owned by the returned C as C->p /
\* C->h; neither is ever freed twice, leaked or left to the caller.
C1_TransplantedArrays ==
    \A b \in {"Cp"} \cup (IF arg.Ch_is_null THEN {} ELSE {"Ch"}) :
        /\ nfree[b] <= 1
        /\ pc = "returned" =>
            \/ /\ nfree[b] = 1
               /\ heap[b] = "freed"
               /\ C.p # b /\ C.h # b
            \/ /\ nfree[b] = 0
               /\ heap[b] = "allocated"
               /\ Chandle = "C"
               /\ (IF b = "Cp" THEN C.p ELSE C.h) = b

\* C1: the prune failed on a hypersparse C, and Cp and Ch were freed once
C1_Witness ==
    /\ pc = "returned"
    /\ info = "GrB_OUT_OF_MEMORY"
    /\ worker # "none"
    /\ nfree["Cp"] = 1 /\ nfree["Ch"] = 1

\* C2: with an operator and no mask, C has an entry at (i,j) iff A or B has
\* one; its value is A(i,j) cast to the type of C when only A has it, B(i,j)
\* cast to the type of C when only B has it, and the operator applied to
\* both (each cast to the operator's input type), its result cast to the
\* type of C, when both have it.  In the scenario C is {v0:{1:15, 3:7},
\* v1:{2:20}} with vector pointers [0,2,3].
C2_AddNoMask ==
    (ReturnedOK /\ arg.op # NoOp /\ ~ arg.has_M /\ InputsOK) =>
        /\ \A c \in Cells :
            /\ InC(c) <=> (InA(c) \/ InB(c))
            /\ InC(c) => ValC(c) = AddValue(c)
        /\ IsScenario =>
            /\ cont[C.p] = (0 :> 0 @@ 1 :> 2 @@ 2 :> 3)
            /\ cont.Ci = (0 :> 1 @@ 1 :> 3 @@ 2 :> 2)
            /\ cont.Cx = (0 :> 15 @@ 1 :> 7 @@ 2 :> 20)

\* C2: the generic worker has added the matrices of the scenario, with A cast
\* to another operand type and the result cast to another type of C
C2_Witness ==
    /\ ReturnedOK /\ arg.op # NoOp /\ ~ arg.has_M /\ InputsOK
    /\ worker = "generic"
    /\ arg.A.type # arg.op.xtype
    /\ arg.ctype # arg.op.ztype
    /\ \A c \in Cells : InA(c) <=> c \in ScenarioA
    /\ \A c \in Cells : InB(c) <=> c \in ScenarioB
    /\ ValC(<<1, 0>>) # ValA(<<1, 0>>) + ValB(<<1, 0>>)

\* C3: with a mask, C has an entry at (i,j) iff A or B has one and M has an
\* entry at (i,j) which, unless the mask is structural, has a true value.
C3_Masked ==
    (ReturnedOK /\ arg.op # NoOp /\ arg.has_M /\ InputsOK) =>
        \A c \in Cells :
            InC(c) <=> ((InA(c) \/ InB(c)) /\ MaskQualifies(c))

\* C3: a valued mask has kept one entry, dropped one whose mask entry is
\* zero and dropped one that has no mask entry
C3_Witness ==
    /\ ReturnedOK /\ arg.op # NoOp /\ arg.has_M /\ InputsOK
    /\ ~ arg.Mask_struct
    /\ \E c \in Cells : InC(c)
    /\ \E c \in Cells : (InA(c) \/ InB(c)) /\ InM(c) /\ ValM(c) = 0
    /\ \E c \in Cells : (InA(c) \/ InB(c)) /\ ~ InM(c)

\* C4: with op NULL and a row index present in the same vector of A and B,
\* the call ends in the contract-violation failure: fadd (NULL) is never
\* called, and no C is returned as built.
C4_NullOpIntersection ==
    (arg.op = NoOp /\ ~ Disjoint) =>
        /\ ~ fadd_null
        /\ pc # "crashed"
        /\ ~ ReturnedOK

\* the positions of Ci and Cx task t owns
TaskRange(t) ==
    LET T == arg.TaskList[t]
    IN  IF IsFine(t) THEN T.pC .. (T.pC_end - 1)
        ELSE arg.Cp[T.kfirst] .. (arg.Cp[T.klast + 1] - 1)

\* the cells of C in storage order, as phase 1 counted them
ExpectedCells ==
    Counted(arg.A, arg.B, arg.M, arg.has_M, arg.Mask_struct)

\* the arguments are as GB_add_phase2 requires them
Precondition == InputsOK /\ (arg.op = NoOp => Disjoint)

\* C5: whatever the order in which the steps of the tasks are taken, each
\* task writes only inside its own range of Ci and Cx, no position is
\* written twice, and once all tasks are finished Ci and Cx hold the values
\* the arguments determine.
C5_Deterministic ==
    /\ \A n \in DOMAIN writes :
        /\ Len(writes[n]) <= 1
        /\ \A q \in 1 .. Len(writes[n]) : n \in TaskRange(writes[n][q])
    /\ (pc = "merge" /\ AllTasksDone /\ Precondition) =>
        \A n \in 0 .. (cnz - 1) :
            /\ Len(writes[n]) = 1
            /\ cont.Ci[n] = Nth(ExpectedCells, n)[1]
            /\ cont.Cx[n] = AddValue(Nth(ExpectedCells, n))

\* C5: two fine tasks of the same vector have both written their entries
C5_Witness ==
    /\ pc = "merge" /\ AllTasksDone /\ Precondition
    /\ \E t1, t2 \in Tasks :
        /\ t1 # t2 /\ IsFine(t1) /\ IsFine(t2)
        /\ \E n \in DOMAIN writes : writes[n] = <<t1>>
        /\ \E n \in DOMAIN writes : writes[n] = <<t2>>

\* C6 as claimed: C is marked valid (GB_MAGIC) only once the merge tasks and
\* the prune have finished.
C6_ValidOnlyAfterPrune ==
    C.magic = "GB_MAGIC" => pc = "returned"

\* C6: C is marked valid (GB_MAGIC) as soon as Cp and Ch are transplanted,
\* before the merge and the prune; what waits for the prune is the hand-over:
\* (*Chandle) is C only after all tasks are finished and the prune succeeded.
C6_ValidAtTransplant ==
    /\ pc \in {"dispatch", "merge"} => C.magic = "GB_MAGIC"
    /\ Chandle = "C" =>
        /\ pc = "returned" /\ info = "GrB_SUCCESS"
        /\ AllTasksDone
        /\ C.magic = "GB_MAGIC"
        /\ ~ NeedsPrune(C)

\* C6: a merge task is still running on a C already marked valid
C6_Witness ==
    /\ pc = "merge"
    /\ ~ AllTasksDone
    /\ C.magic = "GB_MAGIC"
    /\ Chandle = "NULL"

\* C7: when the types do not fit (or, with op NULL, ctype is not the type of
\* A and B or a mask is given) the call is rejected before GB_create: no
\* storage of C is allocated and no worker runs.
C7_RejectedBeforeCreate ==
    ~ InputsOK =>
        /\ pc \in {"check_inputs", "aborted"}
        /\ heap["C"] = "unallocated"
        /\ worker = "none"

\* C8: the call returns GrB_SUCCESS with (*Chandle) the fully built C, or an
\* error with (*Chandle) NULL and all that was allocated for C released;
\* (*Chandle) is C iff the call returned GrB_SUCCESS.
C8_TwoOutcomes ==
    /\ Chandle = "C" <=> ReturnedOK
    /\ pc = "returned" => info \in {"GrB_SUCCESS", "GrB_OUT_OF_MEMORY"}
    /\ ReturnedOK =>
        /\ C.hdr = "C"
        /\ \A b \in {C.hdr, C.p, C.h, C.i, C.x} \ {"NULL"} :
            heap[b] = "allocated"
        /\ \A n \in DOMAIN writes : Len(writes[n]) = 1
    /\ (pc = "returned" /\ info # "GrB_SUCCESS") =>
        /\ Chandle = "NULL"
        /\ C = NullC
        /\ \A b \in Blocks : heap[b] # "allocated"

\* C8: the prune failed after the merge, and Ci and Cx were released
C8_Witness ==
    /\ pc = "returned"
    /\ info = "GrB_OUT_OF_MEMORY"
    /\ Chandle = "NULL"
    /\ heap["Ci"] = "freed" /\ heap["Cx"] = "freed"

\* C9: after all tasks are finished the row indices of each vector of C are
\* strictly ascending, with or without a mask, also in a vector that is
\* split between tasks.
C9_Ascending ==
    (pc = "merge" /\ AllTasksDone) =>
        \A k \in 0 .. (arg.Cnvec - 1) :
            \A n \in arg.Cp[k] .. (arg.Cp[k + 1] - 1) :
                /\ cont.Ci[n] \in Rows
                /\ n + 1 < arg.Cp[k + 1] => cont.Ci[n] < cont.Ci[n + 1]

\* C9: a vector of three or more entries was written by two fine tasks
C9_Witness ==
    /\ pc = "merge" /\ AllTasksDone
    /\ \E t1, t2 \in Tasks :
        /\ t2 = t1 + 1
        /\ IsFine(t1) /\ TaskRange(t1) # {}
        /\ IsFine(t2) /\ TaskRange(t2) # {}
    /\ arg.Cp[1] - arg.Cp[0] >= 3

\* C10: a specialized kernel does the merge only for a built-in operator
\* with ccode == zcode; in every call that passes GB_create, a kernel that
\* reports GrB_NO_VALUE included, one of the two workers does the merge.
C10_OneWorker ==
    /\ worker = "kernel" =>
        /\ GB_binop_builtin(arg.A.type, arg.B.type, arg.op)
        /\ arg.ctype = arg.op.ztype
    /\ (heap["C"] # "unallocated" /\ pc # "dispatch") =>
        worker \in {"kernel", "generic"}
====
